---- MODULE Spec2Model ----
(***************************************************************************)
(* serde-querystring: the duplicate-key parser (src/parsers/duplicate.rs)  *)
(* and the bracket parser (src/parsers/brackets.rs) as a state machine.    *)
(* A byte is its ASCII code; a slice &'a [u8] is a span [off, len] of the  *)
(* input buffer; Option<T> is a sequence of length 0 (None) or 1 (Some).   *)
(***************************************************************************)
EXTENDS Integers, Sequences, FiniteSets, TLC

VARIABLES
    input,      \* the byte buffer handed to parse
    variant,    \* "duplicate" (DuplicateQueryString) or "brackets" (BracketsQS)
    index,      \* the cursor of parse's while loop
    pairs,      \* the BTreeMap under construction: groups sorted by decoded key
    pc,         \* "parse" (in the loop), "done" (parse returned), "panic"
    cur,        \* the store the caller holds: parse's, or one sub_values returned
    path,       \* the keys sub_values was called with to reach cur
    result      \* what the last query returned

vars == <<input, variant, index, pairs, pc, cur, path, result>>

(***************************************************************************)
(* Bytes the parsers match on.                                             *)
(***************************************************************************)
AMP == 38
EQ == 61
LBR == 91
RBR == 93
PCT == 37

None == <<>>
Some(x) == <<x>>
IsSome(o) == o # <<>>
Unwrap(o) == o[1]

(***************************************************************************)
(* Slices.  A slice operation outside its bounds panics in Rust: the *Ok   *)
(* predicates are the bound checks the compiled code performs, and the     *)
(* operators that build a result carry their conjunction in `ok`.          *)
(***************************************************************************)
Span(off, len) == [off |-> off, len |-> len]
Whole(buf) == Span(0, Len(buf))
Max0(n) == IF n < 0 THEN 0 ELSE n

\* slice[i]
IndexOk(s, i) == i < s.len
At(buf, s, i) == IF i < s.len /\ s.off + i < Len(buf) THEN buf[s.off + i + 1] ELSE 0
\* &slice[a..b], &slice[..b], &slice[a..]
SliceOk(s, a, b) == a <= b /\ b <= s.len
Slice(s, a, b) == Span(s.off + a, Max0(b - a))
SliceToOk(s, b) == b <= s.len
SliceTo(s, b) == Span(s.off, b)
SliceFromOk(s, a) == a <= s.len
SliceFrom(s, a) == Span(s.off + a, Max0(s.len - a))
Bytes(buf, s) == SubSeq(buf, s.off + 1, s.off + s.len)

(***************************************************************************)
(* crate::decode (not among the sources): percent-decoding as the          *)
(* specification describes it.  parse_char decodes a hex pair; parse_bytes *)
(* decodes every % followed by two hex digits and copies everything else.  *)
(***************************************************************************)
HexVal(c) ==
    IF c >= 48 /\ c <= 57 THEN Some(c - 48)
    ELSE IF c >= 65 /\ c <= 70 THEN Some(c - 55)
    ELSE IF c >= 97 /\ c <= 102 THEN Some(c - 87)
    ELSE None

parse_char(h, l) ==
    IF IsSome(HexVal(h)) /\ IsSome(HexVal(l))
    THEN Some(16 * Unwrap(HexVal(h)) + Unwrap(HexVal(l)))
    ELSE None

RECURSIVE parse_bytes(_)
parse_bytes(bytes) ==
    IF bytes = <<>> THEN <<>>
    ELSE IF bytes[1] = PCT /\ Len(bytes) >= 3 /\ IsSome(parse_char(bytes[2], bytes[3]))
    THEN <<Unwrap(parse_char(bytes[2], bytes[3]))>> \o parse_bytes(SubSeq(bytes, 4, Len(bytes)))
    ELSE <<bytes[1]>> \o parse_bytes(Tail(bytes))

(***************************************************************************)
(* std: Ord for [u8] (lexicographic), and BTreeMap get / insert / push.    *)
(* The map is the sequence of its groups [key, members] in key order.      *)
(***************************************************************************)
RECURSIVE BytesLess(_, _)
BytesLess(a, b) ==
    IF b = <<>> THEN FALSE
    ELSE IF a = <<>> THEN TRUE
    ELSE IF a[1] # b[1] THEN a[1] < b[1]
    ELSE BytesLess(Tail(a), Tail(b))

MapHas(map, key) == \E i \in 1..Len(map) : map[i].key = key
MapGet(map, key) == (CHOOSE i \in 1..Len(map) : map[i].key = key)
MapKeys(map) == [i \in 1..Len(map) |-> map[i].key]

\* Mutant: the map keeps insertion order.
MutMapInsertLast(map, key, members) == Append(map, [key |-> key, members |-> members])

\* BTreeMap::insert of a key that is not in the map: the entry goes to its
\* place in key order.
MapInsert(map, key, members) ==
    LET n == Cardinality({i \in 1..Len(map) : BytesLess(map[i].key, key)})
    IN SubSeq(map, 1, n) \o <<[key |-> key, members |-> members]>> \o SubSeq(map, n + 1, Len(map))

\* if let Some(values) = pairs.get_mut(key) { values.push(pair) }
\* else { pairs.insert(key, vec![pair]) }
PushPair(map, key, pair) ==
    IF MapHas(map, key)
    THEN [map EXCEPT ![MapGet(map, key)].members = Append(@, pair)]
    ELSE MapInsert(map, key, <<pair>>)

(***************************************************************************)
(* duplicate.rs: Key, Value, Pair.                                         *)
(***************************************************************************)
RECURSIVE DupKeyScan(_, _, _)
DupKeyScan(buf, s, i) ==
    IF i < s.len /\ At(buf, s, i) \notin {AMP, EQ} THEN DupKeyScan(buf, s, i + 1) ELSE i

DupKeyParse(buf, s) ==
    LET i == DupKeyScan(buf, s, 0)
    IN [slice |-> SliceTo(s, i), ok |-> SliceToOk(s, i)]

\* The value loop of both variants: from index 1 to the next '&'.
RECURSIVE ValueScan(_, _, _)
ValueScan(buf, s, i) ==
    IF i < s.len /\ At(buf, s, i) # AMP THEN ValueScan(buf, s, i + 1) ELSE i

\* Mutant: the value ends at the next '=' as well.
MutDupValueParse(buf, s) ==
    IF s.len = 0 \/ At(buf, s, 0) = AMP THEN [v |-> None, ok |-> TRUE]
    ELSE LET i == DupKeyScan(buf, s, 1)
         IN [v |-> Some(Slice(s, 1, i)), ok |-> SliceOk(s, 1, i)]

DupValueParse(buf, s) ==
    IF s.len = 0 \/ At(buf, s, 0) = AMP THEN [v |-> None, ok |-> TRUE]
    ELSE LET i == ValueScan(buf, s, 1)
         IN [v |-> Some(Slice(s, 1, i)), ok |-> SliceOk(s, 1, i)]

DupPairParse(buf, s) ==
    LET key == DupKeyParse(buf, s)
        value == DupValueParse(buf, SliceFrom(s, key.slice.len))
    IN [pair |-> [key |-> [slice |-> key.slice], v |-> value.v],
        ok |-> key.ok /\ SliceFromOk(s, key.slice.len) /\ value.ok]

\* Mutant: the '=' between key and value is not counted.
MutDupPairLenNoEq(pair) ==
    IF IsSome(pair.v) THEN pair.key.slice.len + Unwrap(pair.v).len + 1
    ELSE pair.key.slice.len + 1

DupPairLen(pair) ==
    IF IsSome(pair.v) THEN pair.key.slice.len + Unwrap(pair.v).len + 2
    ELSE pair.key.slice.len + 1

(***************************************************************************)
(* brackets.rs: Key.  A key is [k: the span before the first open bracket, *)
(* rem: Option of the span after it].                                      *)
(***************************************************************************)
\* Mutant: the guard lets the second hex digit lie past the end.
MutEscapeFits(s, i) == i + 1 < s.len

\* index + 2 < slice.len() && parse_char(slice[index + 1], slice[index + 2]) == Some(ch)
EscapeFits(s, i) == i + 2 < s.len
EscapeIs(buf, s, i, ch) ==
    EscapeFits(s, i) /\ parse_char(At(buf, s, i + 1), At(buf, s, i + 2)) = Some(ch)
EscapeOk(s, i) == EscapeFits(s, i) => (IndexOk(s, i + 1) /\ IndexOk(s, i + 2))

RECURSIVE RemainsScan(_, _, _)
RemainsScan(buf, s, i) ==
    IF i < s.len /\ At(buf, s, i) \notin {AMP, EQ} THEN RemainsScan(buf, s, i + 1) ELSE i

parse_remains(buf, key, s) ==
    LET i == RemainsScan(buf, s, 0)
    IN [key |-> [k |-> key, rem |-> Some(SliceTo(s, i))], n |-> i, ok |-> SliceToOk(s, i)]

RECURSIVE BrKeyParseFrom(_, _, _)
BrKeyParseFrom(buf, s, i) ==
    IF i >= s.len THEN [key |-> [k |-> SliceTo(s, i), rem |-> None], n |-> i, ok |-> SliceToOk(s, i)]
    ELSE LET c == At(buf, s, i) IN
        IF c = LBR
        THEN LET res == parse_remains(buf, SliceTo(s, i), SliceFrom(s, i + 1))
             IN [key |-> res.key, n |-> res.n + i + 1,
                 ok |-> SliceToOk(s, i) /\ SliceFromOk(s, i + 1) /\ res.ok]
        ELSE IF c = PCT
        THEN IF EscapeIs(buf, s, i, LBR)
             THEN LET res == parse_remains(buf, SliceTo(s, i), SliceFrom(s, i + 3))
                  IN [key |-> res.key, n |-> res.n + i + 3,
                      ok |-> EscapeOk(s, i) /\ SliceToOk(s, i) /\ SliceFromOk(s, i + 3) /\ res.ok]
             ELSE LET res == BrKeyParseFrom(buf, s, i + 1)
                  IN [res EXCEPT !.ok = @ /\ EscapeOk(s, i)]
        ELSE IF c \in {AMP, EQ}
        THEN [key |-> [k |-> SliceTo(s, i), rem |-> None], n |-> i, ok |-> SliceToOk(s, i)]
        ELSE BrKeyParseFrom(buf, s, i + 1)

BrKeyParse(buf, s) == BrKeyParseFrom(buf, s, 0)

\* The loop of subkey(): where it leaves index and key_end_index.
\* Mutant: key_end_index is set by a closing token only.
RECURSIVE MutSubkeyScanEndUnset(_, _, _)
MutSubkeyScanEndUnset(buf, r, i) ==
    IF i >= r.len THEN [index |-> i, key_end_index |-> 0, ok |-> TRUE]
    ELSE LET c == At(buf, r, i) IN
        IF c = RBR THEN [index |-> i, key_end_index |-> i, ok |-> TRUE]
        ELSE IF c = PCT /\ EscapeIs(buf, r, i, RBR)
        THEN [index |-> i + 2, key_end_index |-> i, ok |-> EscapeOk(r, i)]
        ELSE MutSubkeyScanEndUnset(buf, r, i + 1)

RECURSIVE SubkeyScan(_, _, _)
SubkeyScan(buf, r, i) ==
    IF i >= r.len THEN [index |-> i, key_end_index |-> i, ok |-> TRUE]
    ELSE LET c == At(buf, r, i) IN
        IF c = RBR THEN [index |-> i, key_end_index |-> i, ok |-> TRUE]
        ELSE IF c = PCT
        THEN IF EscapeIs(buf, r, i, RBR)
             THEN [index |-> i + 2, key_end_index |-> i, ok |-> EscapeOk(r, i)]
             ELSE LET res == SubkeyScan(buf, r, i + 1)
                  IN [res EXCEPT !.ok = @ /\ EscapeOk(r, i)]
        ELSE SubkeyScan(buf, r, i + 1)

\* Mutant: an encoded '[' that ends the remainder is not seen.
MutOpenEscapeFits(r, i) == i + 4 < r.len

\* index + 3 < remains.len() && remains[index + 1] == b'%' && ...
OpenEscapeFits(r, i) == i + 3 < r.len

\* Mutant: a key without remainder has the empty subkey.
MutSubkeyOfPlain(buf, key) ==
    IF key.rem = None THEN [sub |-> Some([k |-> SliceTo(key.k, 0), rem |-> None]), ok |-> TRUE]
    ELSE LET r == Unwrap(key.rem)
             sc == SubkeyScan(buf, r, 0)
         IN [sub |-> Some([k |-> SliceTo(r, sc.key_end_index), rem |-> None]), ok |-> TRUE]

\* Mutant: the next level keeps the whole remainder.
MutSubkeyKeepsRemainder(buf, key) ==
    IF key.rem = None THEN [sub |-> None, ok |-> TRUE]
    ELSE LET r == Unwrap(key.rem)
             sc == SubkeyScan(buf, r, 0)
             name == SliceTo(r, sc.key_end_index)
         IN IF sc.index + 1 < r.len
            THEN [sub |-> Some([k |-> name, rem |-> Some(r)]), ok |-> TRUE]
            ELSE [sub |-> Some([k |-> name, rem |-> None]), ok |-> TRUE]

\* Key::subkey: Option of the next level's key, with the bound checks it makes.
subkey(buf, key) ==
    IF key.rem = None THEN [sub |-> None, ok |-> TRUE]
    ELSE LET r == Unwrap(key.rem)
             sc == SubkeyScan(buf, r, 0)
             i == sc.index
             name == SliceTo(r, sc.key_end_index)
             nameOk == sc.ok /\ SliceToOk(r, sc.key_end_index)
         IN IF i + 1 < r.len /\ At(buf, r, i + 1) = LBR
            THEN [sub |-> Some([k |-> name, rem |-> Some(SliceFrom(r, i + 2))]),
                  ok |-> nameOk /\ IndexOk(r, i + 1) /\ SliceFromOk(r, i + 2)]
            ELSE IF OpenEscapeFits(r, i) /\ At(buf, r, i + 1) = PCT
                    /\ parse_char(At(buf, r, i + 2), At(buf, r, i + 3)) = Some(LBR)
            THEN [sub |-> Some([k |-> name, rem |-> Some(SliceFrom(r, i + 4))]),
                  ok |-> nameOk /\ IndexOk(r, i + 1) /\ IndexOk(r, i + 2) /\ IndexOk(r, i + 3)
                         /\ SliceFromOk(r, i + 4)]
            ELSE [sub |-> Some([k |-> name, rem |-> None]),
                  ok |-> nameOk /\ (OpenEscapeFits(r, i) => IndexOk(r, i + 1))]

RECURSIVE HasSubkeyScan(_, _, _)
HasSubkeyScan(buf, r, i) ==
    IF i >= r.len THEN [has |-> FALSE, ok |-> TRUE]
    ELSE LET c == At(buf, r, i) IN
        IF c = RBR THEN [has |-> TRUE, ok |-> TRUE]
        ELSE IF c = PCT
        THEN IF EscapeIs(buf, r, i, RBR) THEN [has |-> TRUE, ok |-> EscapeOk(r, i)]
             ELSE LET res == HasSubkeyScan(buf, r, i + 1)
                  IN [res EXCEPT !.ok = @ /\ EscapeOk(r, i)]
        ELSE HasSubkeyScan(buf, r, i + 1)

\* Mutant: only a remainder that ends with ']' counts as a subkey.
MutHasSubkeyClosedLast(buf, key) ==
    [has |-> key.rem # None /\ Unwrap(key.rem).len > 0
                /\ At(buf, Unwrap(key.rem), Unwrap(key.rem).len - 1) = RBR,
     ok |-> TRUE]

\* Mutant: any non-empty remainder counts as a subkey.
MutHasSubkeyAnyRemainder(buf, key) ==
    [has |-> key.rem # None /\ Unwrap(key.rem).len > 0, ok |-> TRUE]

has_subkey(buf, key) ==
    IF key.rem = None THEN [has |-> FALSE, ok |-> TRUE]
    ELSE HasSubkeyScan(buf, Unwrap(key.rem), 0)

(***************************************************************************)
(* brackets.rs: Value, Pair.                                               *)
(***************************************************************************)
\* Mutant: the end of the buffer after a key gives an empty value.
MutBrValueParseAtEnd(buf, s) ==
    IF s.len = 0 THEN [v |-> Some(SliceTo(s, 0)), n |-> 0, ok |-> TRUE]
    ELSE IF At(buf, s, 0) = AMP THEN [v |-> None, n |-> 0, ok |-> TRUE]
    ELSE LET i == ValueScan(buf, s, 1)
         IN [v |-> Some(Slice(s, 1, i)), n |-> i, ok |-> SliceOk(s, 1, i)]

BrValueParse(buf, s) ==
    IF s.len = 0 \/ At(buf, s, 0) = AMP THEN [v |-> None, n |-> 0, ok |-> TRUE]
    ELSE LET i == ValueScan(buf, s, 1)
         IN [v |-> Some(Slice(s, 1, i)), n |-> i, ok |-> SliceOk(s, 1, i)]

BrPairParse(buf, s) ==
    LET key == BrKeyParse(buf, s)
        value == BrValueParse(buf, SliceFrom(s, key.n))
    IN [pair |-> [key |-> key.key, v |-> value.v],
        n |-> key.n + value.n + 1,
        ok |-> key.ok /\ SliceFromOk(s, key.n) /\ value.ok]

(***************************************************************************)
(* The stores' queries.  Each returns what the method returns, and `ok`:   *)
(* whether every slice operation on the way was in bounds.                 *)
(***************************************************************************)
\* p.1.as_ref().map(|v| v.decode_to(&mut scratch).into_cow())
DecodeValue(buf, pair) ==
    IF IsSome(pair.v) THEN Some(parse_bytes(Bytes(buf, Unwrap(pair.v)))) ELSE None

\* .map(..).collect()
DecodedValues(buf, members) == [i \in 1..Len(members) |-> DecodeValue(buf, members[i])]

Last(seq) == IF seq = <<>> THEN None ELSE Some(seq[Len(seq)])

DupKeys(map) == MapKeys(map)

DupValues(buf, map, key) ==
    IF ~MapHas(map, key) THEN None
    ELSE Some(DecodedValues(buf, map[MapGet(map, key)].members))

DupValue(buf, map, key) ==
    IF ~MapHas(map, key) THEN None
    ELSE LET l == Last(map[MapGet(map, key)].members)
         IN IF IsSome(l) THEN Some(DecodeValue(buf, Unwrap(l))) ELSE None

BrKeys(map) == MapKeys(map)

\* .filter(|p| !p.0.has_subkey())
LeafOnly(buf, members) ==
    LET Keep(p) == ~has_subkey(buf, p.key).has
    IN SelectSeq(members, Keep)

ProbeOk(buf, members) == \A i \in 1..Len(members) : has_subkey(buf, members[i].key).ok

\* Mutant: no pair is filtered out.
MutBrValuesUnfiltered(buf, map, key) ==
    IF ~MapHas(map, key) THEN [out |-> None, ok |-> TRUE]
    ELSE [out |-> Some(DecodedValues(buf, map[MapGet(map, key)].members)), ok |-> TRUE]

BrValues(buf, map, key) ==
    IF ~MapHas(map, key) THEN [out |-> None, ok |-> TRUE]
    ELSE LET members == map[MapGet(map, key)].members
         IN [out |-> Some(DecodedValues(buf, LeafOnly(buf, members))),
             ok |-> ProbeOk(buf, members)]

\* Mutant: the last pair of the group wins, leaf or not.
MutBrValueUnfiltered(buf, map, key) ==
    IF ~MapHas(map, key) THEN [out |-> None, ok |-> TRUE]
    ELSE LET l == Last(map[MapGet(map, key)].members)
         IN [out |-> IF IsSome(l) THEN Some(DecodeValue(buf, Unwrap(l))) ELSE None,
             ok |-> TRUE]

BrValue(buf, map, key) ==
    IF ~MapHas(map, key) THEN [out |-> None, ok |-> TRUE]
    ELSE LET members == map[MapGet(map, key)].members
             l == Last(LeafOnly(buf, members))
         IN [out |-> IF IsSome(l) THEN Some(DecodeValue(buf, Unwrap(l))) ELSE None,
             ok |-> ProbeOk(buf, members)]

\* BracketsQS::from_pairs: the pairs that have a subkey, regrouped under it.
RECURSIVE FromPairsInto(_, _, _)
FromPairsInto(buf, map, members) ==
    IF members = <<>> THEN map
    ELSE LET p == members[1]
             sk == subkey(buf, p.key).sub
         IN IF sk = None THEN FromPairsInto(buf, map, Tail(members))
            ELSE FromPairsInto(
                    buf,
                    PushPair(map, parse_bytes(Bytes(buf, Unwrap(sk).k)),
                             [key |-> Unwrap(sk), v |-> p.v]),
                    Tail(members))

from_pairs(buf, members) ==
    [store |-> FromPairsInto(buf, <<>>, members),
     ok |-> \A i \in 1..Len(members) : subkey(buf, members[i].key).ok]

sub_values(buf, map, key) ==
    IF ~MapHas(map, key) THEN [out |-> None, ok |-> TRUE]
    ELSE LET r == from_pairs(buf, map[MapGet(map, key)].members)
         IN [out |-> Some(r.store), ok |-> r.ok]

(***************************************************************************)
(* The parse loops and the queries as actions.                             *)
(***************************************************************************)
\* Mutant: the pair is grouped under its raw key.
MutDupRawKey(buf, pair) == Bytes(buf, pair.key.slice)

\* Mutant: the bracket store groups a pair under its raw key.
MutBrRawKey(buf, pair) == Bytes(buf, pair.key.k)

\* let decoded_key = pair.0.decode_to(&mut scratch);
DupDecodedKey(buf, pair) == parse_bytes(Bytes(buf, pair.key.slice))
BrDecodedKey(buf, pair) == parse_bytes(Bytes(buf, pair.key.k))

\* One iteration of the while loop of DuplicateQueryString::parse.
DuplicateParse ==
    /\ variant = "duplicate" /\ pc = "parse" /\ index < Len(input)
    /\ LET r == DupPairParse(input, SliceFrom(Whole(input), index))
       IN IF r.ok /\ SliceFromOk(Whole(input), index)
          THEN /\ index' = index + DupPairLen(r.pair)
               /\ pairs' = PushPair(pairs, DupDecodedKey(input, r.pair), r.pair)
               /\ pc' = "parse"
          ELSE pc' = "panic" /\ UNCHANGED <<index, pairs>>
    /\ UNCHANGED <<input, variant, cur, path, result>>

\* One iteration of the while loop of BracketsQS::parse.
BracketsParse ==
    /\ variant = "brackets" /\ pc = "parse" /\ index < Len(input)
    /\ LET r == BrPairParse(input, SliceFrom(Whole(input), index))
       IN IF r.ok /\ SliceFromOk(Whole(input), index)
          THEN /\ index' = index + r.n
               /\ pairs' = PushPair(pairs, BrDecodedKey(input, r.pair), r.pair)
               /\ pc' = "parse"
          ELSE pc' = "panic" /\ UNCHANGED <<index, pairs>>
    /\ UNCHANGED <<input, variant, cur, path, result>>

\* The loop condition fails: Self { pairs } is returned to the caller.
ParseReturn ==
    /\ pc = "parse" /\ index >= Len(input)
    /\ pc' = "done"
    /\ cur' = pairs
    /\ UNCHANGED <<input, variant, index, pairs, path, result>>

\* The keys a caller asks for: those of the store, and some that may be absent.
\* (z is in no buffer; the buffer itself is the key of a buffer that is one key.)
ProbeKeys == {<<122>>, input}
QueryKeys(map) == {map[i].key : i \in 1..Len(map)} \cup ProbeKeys

Returned(op, key, out) == [op |-> op, key |-> key, out |-> out]

CallDupKeys ==
    /\ variant = "duplicate" /\ pc = "done"
    /\ result' = Returned("keys", <<>>, DupKeys(cur))
    /\ UNCHANGED <<input, variant, index, pairs, pc, cur, path>>

CallDupValues ==
    /\ variant = "duplicate" /\ pc = "done"
    /\ \E key \in QueryKeys(cur) : result' = Returned("values", key, DupValues(input, cur, key))
    /\ UNCHANGED <<input, variant, index, pairs, pc, cur, path>>

CallDupValue ==
    /\ variant = "duplicate" /\ pc = "done"
    /\ \E key \in QueryKeys(cur) : result' = Returned("value", key, DupValue(input, cur, key))
    /\ UNCHANGED <<input, variant, index, pairs, pc, cur, path>>

CallBrKeys ==
    /\ variant = "brackets" /\ pc = "done"
    /\ result' = Returned("keys", <<>>, BrKeys(cur))
    /\ UNCHANGED <<input, variant, index, pairs, pc, cur, path>>

CallBrValues ==
    /\ variant = "brackets" /\ pc = "done"
    /\ \E key \in QueryKeys(cur) :
        LET r == BrValues(input, cur, key)
        IN IF r.ok THEN result' = Returned("values", key, r.out) /\ pc' = pc
           ELSE pc' = "panic" /\ UNCHANGED result
    /\ UNCHANGED <<input, variant, index, pairs, cur, path>>

CallBrValue ==
    /\ variant = "brackets" /\ pc = "done"
    /\ \E key \in QueryKeys(cur) :
        LET r == BrValue(input, cur, key)
        IN IF r.ok THEN result' = Returned("value", key, r.out) /\ pc' = pc
           ELSE pc' = "panic" /\ UNCHANGED result
    /\ UNCHANGED <<input, variant, index, pairs, cur, path>>

\* sub_values(key): the caller goes on with the store it returns, if any.
CallSubValues ==
    /\ variant = "brackets" /\ pc = "done"
    /\ \E key \in QueryKeys(cur) :
        LET r == sub_values(input, cur, key)
        IN IF ~r.ok THEN pc' = "panic" /\ UNCHANGED <<result, cur, path>>
           ELSE /\ pc' = pc
                /\ result' = Returned("sub_values", key, r.out)
                /\ IF IsSome(r.out)
                   THEN cur' = Unwrap(r.out) /\ path' = Append(path, key)
                   ELSE UNCHANGED <<cur, path>>
    /\ UNCHANGED <<input, variant, index, pairs>>

NextBr ==
    \/ BracketsParse
    \/ ParseReturn
    \/ CallBrKeys
    \/ CallBrValues
    \/ CallBrValue
    \/ CallSubValues

Next ==
    \/ DuplicateParse
    \/ BracketsParse
    \/ ParseReturn
    \/ CallDupKeys
    \/ CallDupValues
    \/ CallDupValue
    \/ CallBrKeys
    \/ CallBrValues
    \/ CallBrValue
    \/ CallSubValues

(***************************************************************************)
(* The input buffers.                                                      *)
(***************************************************************************)
MaxTokens == 3
MaxPairs == 3

\* Every concatenation of at most n of the tokens.
RECURSIVE Strs(_, _)
Strs(tokens, n) ==
    IF n = 0 THEN {<<>>}
    ELSE LET shorter == Strs(tokens, n - 1)
         IN shorter \cup {s \o t : s \in shorter, t \in tokens}

\* Every buffer of at most n of the segments, joined by '&'.
RECURSIVE Joined(_, _)
Joined(segs, n) ==
    IF n = 0 THEN {<<>>}
    ELSE IF n = 1 THEN {<<>>} \cup segs
    ELSE LET shorter == Joined(segs, n - 1)
         IN shorter \cup {s \o <<AMP>> \o t : s \in shorter \ {<<>>}, t \in segs}
                    \cup {<<AMP>> \o t : t \in segs}

\* & = [ ] % 5 3 %33 %5B %5D
FuzzTokens ==
    { <<38>>, <<61>>, <<91>>, <<93>>, <<37>>, <<53>>, <<51>>,
      <<37, 51, 51>>, <<37, 53, 66>>, <<37, 53, 68>> }

\* (empty)  3  3=  %33=5  5=%33=  %33[5]=5  3[5=3  3[=5  3[5]%5B3%5D=3
PairSegments ==
    { <<>>, <<51>>, <<51, 61>>, <<37, 51, 51, 61, 53>>,
      <<53, 61, 37, 51, 51, 61>>,
      <<37, 51, 51, 91, 53, 93, 61, 53>>, <<51, 91, 53, 61, 51>>,
      <<51, 91, 61, 53>>,
      <<51, 91, 53, 93, 37, 53, 66, 51, 37, 53, 68, 61, 51>> }

InitWith(inputs, variants) ==
    /\ input \in inputs
    /\ variant \in variants
    /\ index = 0
    /\ pairs = <<>>
    /\ pc = "parse"
    /\ cur = <<>>
    /\ path = <<>>
    /\ result = Returned("none", <<>>, None)

Init == InitWith(Strs(FuzzTokens, MaxTokens), {"duplicate", "brackets"})
InitPairs == InitWith(Joined(PairSegments, MaxPairs), {"duplicate", "brackets"})

\* Well-formed buffers: at least one of the pairs, joined by '&'.
RECURSIVE JoinedPairs(_, _)
JoinedPairs(segs, n) ==
    IF n <= 1 THEN segs
    ELSE LET shorter == JoinedPairs(segs, n - 1)
         IN shorter \cup {s \o <<AMP>> \o t : s \in shorter, t \in segs}

\* 3=3  3=5  5=3  3[3]=3  3[5]=5  3[5]=3  3[]=5  5[3]=5
WellFormedSegments ==
    { <<51, 61, 51>>, <<51, 61, 53>>, <<53, 61, 51>>,
      <<51, 91, 51, 93, 61, 51>>, <<51, 91, 53, 93, 61, 53>>, <<51, 91, 53, 93, 61, 51>>,
      <<51, 91, 93, 61, 53>>, <<53, 91, 51, 93, 61, 53>> }

InitWellFormed == InitWith(JoinedPairs(WellFormedSegments, MaxPairs), {"brackets"})

\* k[s]g=v: one bracketed pair with garbage g between the ']' and the '='.
MaxGarbage == 3

\* x [ ] % 5 %5B %5D
GarbageTokens ==
    { <<120>>, <<91>>, <<93>>, <<37>>, <<53>>, <<37, 53, 66>>, <<37, 53, 68>> }

GarbagePair(k, s, g, v) == k \o <<LBR>> \o s \o <<RBR>> \o g \o <<EQ>> \o v

InitGarbage ==
    InitWith({GarbagePair(<<51>>, s, g, <<51>>) :
                s \in {<<>>, <<53>>}, g \in Strs(GarbageTokens, MaxGarbage)},
             {"brackets"})

Spec == Init /\ [][Next]_vars
SpecPairs == InitPairs /\ [][Next]_vars
SpecWellFormed == InitWellFormed /\ [][NextBr]_vars
SpecGarbage == InitGarbage /\ [][NextBr]_vars

(***************************************************************************)
(* What the claims speak of, read off the buffer itself.                   *)
(***************************************************************************)
\* The '&'-separated segments of a buffer in order; the empty rest after a
\* trailing '&', and the empty buffer, hold no segment.
RECURSIVE RefSegments(_)
RefSegments(buf) ==
    IF buf = <<>> THEN <<>>
    ELSE IF \E i \in 1..Len(buf) : buf[i] = AMP
    THEN LET a == CHOOSE i \in 1..Len(buf) : buf[i] = AMP /\ \A j \in 1..(i - 1) : buf[j] # AMP
         IN <<SubSeq(buf, 1, a - 1)>> \o RefSegments(SubSeq(buf, a + 1, Len(buf)))
    ELSE <<buf>>

RefHasEq(seg) == \E i \in 1..Len(seg) : seg[i] = EQ
RefFirstEq(seg) == CHOOSE i \in 1..Len(seg) : seg[i] = EQ /\ \A j \in 1..(i - 1) : seg[j] # EQ
RefKey(seg) == IF RefHasEq(seg) THEN SubSeq(seg, 1, RefFirstEq(seg) - 1) ELSE seg
RefValue(seg) ==
    IF RefHasEq(seg) THEN Some(parse_bytes(SubSeq(seg, RefFirstEq(seg) + 1, Len(seg)))) ELSE None

\* The values of the segments of buf whose key decodes to k, in buffer order.
RefValues(buf, k) ==
    LET HasKey(seg) == parse_bytes(RefKey(seg)) = k
        segs == SelectSeq(RefSegments(buf), HasKey)
    IN [i \in 1..Len(segs) |-> RefValue(segs[i])]

\* a precedes b in byte-lexicographic order
RefLess(a, b) ==
    \E i \in 1..Len(b) :
        /\ \A j \in 1..(i - 1) : j <= Len(a) /\ a[j] = b[j]
        /\ (i > Len(a) \/ a[i] < b[i])

\* A closing-bracket token, ']' or %5D / %5d, somewhere in the bytes.
RefHasClose(bytes) ==
    \E i \in 1..Len(bytes) :
        \/ bytes[i] = RBR
        \/ /\ i + 2 <= Len(bytes) /\ bytes[i] = PCT /\ bytes[i + 1] = 53
           /\ bytes[i + 2] \in {68, 100}

\* The raw key span of a stored pair, and where the pair begins in the buffer.
RawKey(pair) == IF variant = "duplicate" THEN pair.key.slice ELSE pair.key.k
Groups(map) == 1..Len(map)
Members(map, g) == 1..Len(map[g].members)
TotalPairs(map) ==
    LET RECURSIVE Sum(_)
        Sum(g) == IF g = 0 THEN 0 ELSE Len(map[g].members) + Sum(g - 1)
    IN Sum(Len(map))

(***************************************************************************)
(* C1.  Pairs whose raw keys percent-decode to the same bytes are in one   *)
(* group: no two groups of parse's store have the same key, every pair is  *)
(* in the group of its decoded key, and a group's members are in their     *)
(* order of appearance in the buffer.                                      *)
(***************************************************************************)
C1_DecodedKeysShareGroup ==
    /\ \A g, h \in Groups(pairs) : g # h => pairs[g].key # pairs[h].key
    /\ \A g \in Groups(pairs) : \A m \in Members(pairs, g) :
        parse_bytes(Bytes(input, RawKey(pairs[g].members[m]))) = pairs[g].key
    /\ \A g \in Groups(pairs) : \A m, n \in Members(pairs, g) :
        m < n => RawKey(pairs[g].members[m]).off < RawKey(pairs[g].members[n]).off

\* The bracket parser has put two different spellings of one key in one group.
C1_Witness ==
    /\ pc = "done"
    /\ \E g \in Groups(pairs) : \E m, n \in Members(pairs, g) :
        /\ m < n
        /\ Bytes(input, RawKey(pairs[g].members[m])) # Bytes(input, RawKey(pairs[g].members[n]))
        /\ variant = "brackets"

(***************************************************************************)
(* C2.  Duplicate variant: values(k) of a key of the store is the list of  *)
(* the values of the '&'-separated pairs whose key decodes to k, in buffer *)
(* order: None without '=', Some(the decoded bytes after the first '=')    *)
(* with one.  Pairs of other keys do not change it, wherever they sit.     *)
(***************************************************************************)
C2_DupValuesInInputOrder ==
    (variant = "duplicate" /\ result.op = "values" /\ MapHas(cur, result.key))
        => result.out = Some(RefValues(input, result.key))

\* values(k) returned two different values of k, a pair of another key between them.
C2_Witness ==
    /\ variant = "duplicate" /\ result.op = "values" /\ IsSome(result.out)
    /\ Len(Unwrap(result.out)) = 2
    /\ Unwrap(result.out)[1] # Unwrap(result.out)[2]
    /\ Len(RefSegments(input)) = 3
    /\ parse_bytes(RefKey(RefSegments(input)[2])) # result.key

(***************************************************************************)
(* C3.  value(k) is the last element of the list values(k) returns, when   *)
(* that list is not empty, and None exactly when k is absent or (bracket   *)
(* variant) every pair under k is filtered out; in the bracket variant the *)
(* winner is the last of the leaf pairs, not the last pair of the group.   *)
(***************************************************************************)
RefLeaf(pair) ==
    pair.key.rem = None \/ ~RefHasClose(Bytes(input, Unwrap(pair.key.rem)))

RefLeafMembers(map, key) == SelectSeq(map[MapGet(map, key)].members, RefLeaf)

C3_ValueIsLastOfValues ==
    result.op = "value" =>
        LET vs == IF variant = "duplicate" THEN DupValues(input, cur, result.key)
                  ELSE BrValues(input, cur, result.key).out
        IN /\ (IsSome(vs) /\ Unwrap(vs) # <<>>)
                => result.out = Some(Unwrap(vs)[Len(Unwrap(vs))])
           /\ (result.out = None) <=>
                \/ ~MapHas(cur, result.key)
                \/ variant = "brackets" /\ RefLeafMembers(cur, result.key) = <<>>
           /\ (variant = "brackets" /\ MapHas(cur, result.key)
                    /\ RefLeafMembers(cur, result.key) # <<>>)
                => LET leaves == RefLeafMembers(cur, result.key)
                   IN result.out = Some(DecodeValue(input, leaves[Len(leaves)]))

\* value(k) returned the value of a leaf pair that a bracketed pair follows.
C3_Witness ==
    /\ variant = "brackets" /\ result.op = "value" /\ IsSome(result.out)
    /\ MapHas(cur, result.key)
    /\ LET members == cur[MapGet(cur, result.key)].members
       IN ~RefLeaf(members[Len(members)])

(***************************************************************************)
(* C4.  values(k) is None when k is not among keys(); when k is among      *)
(* keys() it is Some of a list, which in the duplicate variant has at      *)
(* least one element, and in the bracket variant is empty exactly when     *)
(* every pair under k has a closing bracket in its remainder.              *)
(***************************************************************************)
KeysOf(map) == {MapKeys(map)[i] : i \in 1..Len(map)}

C4_ValuesPresence ==
    result.op = "values" =>
        /\ result.key \notin KeysOf(cur) => result.out = None
        /\ result.key \in KeysOf(cur) =>
            /\ IsSome(result.out)
            /\ variant = "duplicate" => Len(Unwrap(result.out)) >= 1
            /\ variant = "brackets" =>
                (Unwrap(result.out) = <<>> <=> RefLeafMembers(cur, result.key) = <<>>)

\* C4 as the specification states it: Some(empty list) is never returned.
C4_Original ==
    result.op = "values" =>
        /\ result.key \notin KeysOf(cur) => result.out = None
        /\ result.key \in KeysOf(cur) => (IsSome(result.out) /\ Len(Unwrap(result.out)) >= 1)

\* The bracket store returned Some(empty list) for a key of parse's store.
C4_Witness ==
    /\ variant = "brackets" /\ result.op = "values" /\ path = <<>>
    /\ result.key \in KeysOf(cur)
    /\ result.out = Some(<<>>)

(***************************************************************************)
(* C5.  Bracket variant: values(k) reports exactly the pairs under k whose *)
(* remainder holds no closing bracket (no remainder at all included), and  *)
(* sub_values(k) holds exactly the pairs under k that have a remainder, be *)
(* it empty: a pair whose remainder has no closing bracket is reported by  *)
(* both, a pair whose remainder has one only by sub_values.                *)
(***************************************************************************)
RECURSIVE StoreAt(_, _)
StoreAt(map, keys) ==
    IF keys = <<>> THEN map
    ELSE StoreAt(Unwrap(sub_values(input, map, keys[1]).out), Tail(keys))

ParentGroup ==
    LET parent == StoreAt(pairs, SubSeq(path, 1, Len(path) - 1))
    IN parent[MapGet(parent, path[Len(path)])].members

HasRemainder(pair) == pair.key.rem # None
ValuesIn(map) == UNION {{map[g].members[m].v : m \in Members(map, g)} : g \in Groups(map)}

C5_LeafOrNested ==
    variant = "brackets" =>
        /\ (result.op = "values" /\ MapHas(cur, result.key)) =>
            result.out = Some(DecodedValues(input, RefLeafMembers(cur, result.key)))
        /\ (result.op = "sub_values" /\ IsSome(result.out)) =>
            LET nested == SelectSeq(ParentGroup, HasRemainder)
            IN /\ TotalPairs(cur) = Len(nested)
               /\ ValuesIn(cur) = {nested[i].v : i \in 1..Len(nested)}

\* C5 as the specification states it: a pair with a non-empty remainder is not
\* reported by values(k), and no pair is reported by both.
C5_Original ==
    variant = "brackets" =>
        /\ (result.op = "values" /\ MapHas(cur, result.key)) =>
            LET Leaf(p) == p.key.rem = None \/ Unwrap(p.key.rem).len = 0
            IN result.out
                = Some(DecodedValues(input, SelectSeq(cur[MapGet(cur, result.key)].members, Leaf)))
        /\ (result.op = "sub_values" /\ IsSome(result.out)) =>
            \A i \in 1..Len(ParentGroup) :
                ~(~has_subkey(input, ParentGroup[i].key).has
                    /\ IsSome(subkey(input, ParentGroup[i].key).sub))

\* sub_values(k) returned a store holding a pair that values(k) reports too.
C5_Witness ==
    /\ variant = "brackets" /\ result.op = "sub_values" /\ IsSome(result.out)
    /\ \E i \in 1..Len(ParentGroup) :
        HasRemainder(ParentGroup[i]) /\ RefLeaf(ParentGroup[i])
    /\ \E i \in 1..Len(ParentGroup) : ~RefLeaf(ParentGroup[i])

(***************************************************************************)
(* C9.  keys() returns every group key of the store once, in strictly      *)
(* ascending byte-lexicographic order, whatever the order of the keys in   *)
(* the buffer; so does keys() of a store that sub_values returned.         *)
(***************************************************************************)
C9_KeysAscending ==
    result.op = "keys" =>
        /\ \A i, j \in 1..Len(result.out) : i < j => RefLess(result.out[i], result.out[j])
        /\ Len(result.out) = Len(cur)
        /\ {result.out[i] : i \in 1..Len(result.out)} = {cur[g].key : g \in Groups(cur)}
        /\ (variant = "duplicate") =>
            {result.out[i] : i \in 1..Len(result.out)}
                = {parse_bytes(RefKey(RefSegments(input)[i])) : i \in 1..Len(RefSegments(input))}

\* keys() of a store from sub_values, whose last key is the one that came first.
C9_Witness ==
    /\ result.op = "keys" /\ path # <<>> /\ Len(result.out) >= 2
    /\ \A g \in Groups(cur) : \A m \in Members(cur, g) :
        cur[Len(cur)].members[1].key.k.off <= cur[g].members[m].key.k.off

(***************************************************************************)
(* C6.  Bracket variant, a buffer of pairs k=v and k[s]=v: sub_values(k)   *)
(* is a store whose keys are the subkeys s used under k, its values(s) the *)
(* Some(v) of the pairs k[s]=v in buffer order, values(k) the Some(v) of   *)
(* the pairs k=v alone, and sub_values(k) is None when no pair has key k.  *)
(***************************************************************************)
RefHas(seg, b) == \E i \in 1..Len(seg) : seg[i] = b
RefFirst(seg, b) == CHOOSE i \in 1..Len(seg) : seg[i] = b /\ \A j \in 1..(i - 1) : seg[j] # b
RefBracketed(seg) == RefHas(seg, LBR)
\* k, s and v of a pair k=v or k[s]=v
RefPairKey(seg) ==
    IF RefBracketed(seg) THEN SubSeq(seg, 1, RefFirst(seg, LBR) - 1)
    ELSE SubSeq(seg, 1, RefFirst(seg, EQ) - 1)
RefPairSub(seg) == SubSeq(seg, RefFirst(seg, LBR) + 1, RefFirst(seg, RBR) - 1)
RefPairValue(seg) == SubSeq(seg, RefFirst(seg, EQ) + 1, Len(seg))

RefPlainValues(buf, k) ==
    LET Plain(seg) == ~RefBracketed(seg) /\ RefPairKey(seg) = k
        segs == SelectSeq(RefSegments(buf), Plain)
    IN [i \in 1..Len(segs) |-> Some(RefPairValue(segs[i]))]

RefSubValues(buf, k, s) ==
    LET Under(seg) == RefBracketed(seg) /\ RefPairKey(seg) = k /\ RefPairSub(seg) = s
        segs == SelectSeq(RefSegments(buf), Under)
    IN [i \in 1..Len(segs) |-> Some(RefPairValue(segs[i]))]

RefKeysOf(buf) == {RefPairKey(RefSegments(buf)[i]) : i \in 1..Len(RefSegments(buf))}
RefSubkeysOf(buf, k) ==
    {RefPairSub(RefSegments(buf)[i]) :
        i \in {j \in 1..Len(RefSegments(buf)) :
                RefBracketed(RefSegments(buf)[j]) /\ RefPairKey(RefSegments(buf)[j]) = k}}

C6_WellFormedSubValues ==
    /\ (result.op = "sub_values" /\ path = <<>>) => result.key \notin RefKeysOf(input)
    /\ (result.op = "sub_values" /\ Len(path) = 1) =>
        /\ path[1] \in RefKeysOf(input)
        /\ KeysOf(cur) = RefSubkeysOf(input, path[1])
    /\ (result.op = "values" /\ Len(path) = 1 /\ MapHas(cur, result.key)) =>
        result.out = Some(RefSubValues(input, path[1], result.key))
    /\ (result.op = "values" /\ path = <<>> /\ MapHas(cur, result.key)) =>
        result.out = Some(RefPlainValues(input, result.key))

\* sub_values(k).values(s) returned two values while the buffer has a plain k=v too.
C6_Witness ==
    /\ result.op = "values" /\ Len(path) = 1 /\ IsSome(result.out)
    /\ Len(Unwrap(result.out)) = 2
    /\ Unwrap(result.out)[1] # Unwrap(result.out)[2]
    /\ RefPlainValues(input, path[1]) # <<>>

(***************************************************************************)
(* C7.  Bracket variant: for a buffer k[s]g=v whose garbage g is not an    *)
(* open bracket followed by bytes that hold a closing bracket,             *)
(* values(k) is Some(empty list), sub_values(k) has the one key s and its  *)
(* values(s) is [Some(v)]: what parsing k[s]=v gives.                      *)
(***************************************************************************)
\* g of a buffer k[s]g=v: the bytes between the first ']' and the first '='
RefGarbage(buf) == SubSeq(buf, RefFirst(buf, RBR) + 1, RefFirst(buf, EQ) - 1)

RefOpenLen(bytes) ==
    IF bytes # <<>> /\ bytes[1] = LBR THEN 1
    ELSE IF Len(bytes) >= 3 /\ bytes[1] = PCT /\ bytes[2] = 53 /\ bytes[3] \in {66, 98} THEN 3
    ELSE 0

GarbageQualifies(g) ==
    ~(RefOpenLen(g) > 0 /\ RefHasClose(SubSeq(g, RefOpenLen(g) + 1, Len(g))))

C7_GarbageIgnored ==
    GarbageQualifies(RefGarbage(input)) =>
        /\ (result.op = "values" /\ path = <<>> /\ result.key = RefPairKey(input)) =>
            result.out = Some(<<>>)
        /\ (result.op = "sub_values" /\ Len(path) <= 1 /\ result.key = RefPairKey(input)) =>
            /\ path = <<RefPairKey(input)>>
            /\ KeysOf(cur) = {RefPairSub(input)}
        /\ (result.op = "values" /\ path = <<RefPairKey(input)>>
                /\ result.key = RefPairSub(input)) =>
            result.out = Some(<<Some(RefPairValue(input))>>)

\* sub_values(k).values(s) was asked of a buffer whose garbage holds both brackets.
C7_Witness ==
    /\ result.op = "values" /\ path = <<RefPairKey(input)>>
    /\ result.key = RefPairSub(input)
    /\ GarbageQualifies(RefGarbage(input))
    /\ RefHas(RefGarbage(input), LBR)
    /\ RefHasClose(RefGarbage(input))

(***************************************************************************)
(* C8.  The core path is total: no slice operation of parse or of a query  *)
(* is out of bounds, every iteration of the parse loop moves the cursor on *)
(* by at least one byte, and the loop makes at most len(input) iterations. *)
(***************************************************************************)
C8_Total ==
    /\ [](pc # "panic" /\ TotalPairs(pairs) <= Len(input))
    /\ [][(pc = "parse" /\ pairs' # pairs) => index' >= index + 1]_vars

\* The bracket parser went down into a remainder that ends in a lone '%'.
C8_Witness ==
    /\ variant = "brackets" /\ pc = "done"
    /\ result.op = "sub_values" /\ IsSome(result.out)
    /\ input # <<>> /\ input[Len(input)] = PCT

(***************************************************************************)
(* C10.  A non-empty buffer with none of '&', '=', '[', '%' gives one      *)
(* group, whose key is the buffer, holding one pair without a value:       *)
(* values(input) is Some([None]).  The empty buffer gives no group.        *)
(***************************************************************************)
NoSpecial(buf) == \A i \in 1..Len(buf) : buf[i] \notin {AMP, EQ, LBR, PCT}

OneBareKey ==
    /\ pc = "done" => (Len(pairs) = 1 /\ pairs[1].key = input /\ TotalPairs(pairs) = 1)
    /\ (result.op = "values" /\ path = <<>> /\ result.key = input)
        => result.out = Some(<<None>>)

C10_BareKey ==
    /\ (NoSpecial(input) /\ input # <<>>) => OneBareKey
    /\ (input = <<>> /\ pc = "done") => pairs = <<>>

\* C10 as the specification states it: for every such buffer, the empty one too.
C10_Original == NoSpecial(input) => OneBareKey

\* values(input) was asked of the bracket store of a buffer that holds a ']'.
C10_Witness ==
    /\ variant = "brackets" /\ result.op = "values" /\ result.key = input
    /\ NoSpecial(input) /\ Len(input) >= 2
    /\ \E i \in 1..Len(input) : input[i] = RBR

(***************************************************************************)
(* The whole of parse as one function of the buffer, and the store that a  *)
(* chain of sub_values calls reaches in it.                                *)
(***************************************************************************)
RECURSIVE DupParseFrom(_, _, _)
DupParseFrom(buf, i, map) ==
    IF i >= Len(buf) THEN map
    ELSE LET r == DupPairParse(buf, SliceFrom(Whole(buf), i))
         IN DupParseFrom(buf, i + DupPairLen(r.pair),
                         PushPair(map, DupDecodedKey(buf, r.pair), r.pair))

DupParseAll(buf) == DupParseFrom(buf, 0, <<>>)

RECURSIVE BrParseFrom(_, _, _)
BrParseFrom(buf, i, map) ==
    IF i >= Len(buf) THEN map
    ELSE LET r == BrPairParse(buf, SliceFrom(Whole(buf), i))
         IN BrParseFrom(buf, i + r.n, PushPair(map, BrDecodedKey(buf, r.pair), r.pair))

BrParseAll(buf) == BrParseFrom(buf, 0, <<>>)

\* sub_values(keys[1]) ... sub_values(keys[n]) from the store map: the Option
\* the last call returns, None as soon as one of the keys is absent.
RECURSIVE Descend(_, _, _)
Descend(buf, map, keys) ==
    IF keys = <<>> THEN Some(map)
    ELSE LET r == sub_values(buf, map, keys[1])
         IN IF r.out = None THEN None ELSE Descend(buf, Unwrap(r.out), Tail(keys))

(***************************************************************************)
(* Buffers of bracket tokens, literal and percent-encoded.                 *)
(***************************************************************************)
MaxEncTokens == 3

\* 3 = [ ] %5B %5D %5b %5d
EncTokens ==
    { <<51>>, <<61>>, <<91>>, <<93>>, <<37, 53, 66>>, <<37, 53, 68>>,
      <<37, 53, 98>>, <<37, 53, 100>> }

InitEncoded == InitWith(Strs(EncTokens, MaxEncTokens), {"brackets"})
SpecEncoded == InitEncoded /\ [][NextBr]_vars

\* The buffer with every encoded bracket of a key position (the bytes of a
\* segment before its first '=') written as the literal bracket.
RECURSIVE Literal(_, _)
Literal(buf, inKey) ==
    IF buf = <<>> THEN <<>>
    ELSE IF buf[1] = AMP THEN <<AMP>> \o Literal(Tail(buf), TRUE)
    ELSE IF buf[1] = EQ THEN <<EQ>> \o Literal(Tail(buf), FALSE)
    ELSE IF inKey /\ Len(buf) >= 3 /\ buf[1] = PCT /\ buf[2] = 53 /\ buf[3] \in {66, 98}
        THEN <<LBR>> \o Literal(SubSeq(buf, 4, Len(buf)), TRUE)
    ELSE IF inKey /\ Len(buf) >= 3 /\ buf[1] = PCT /\ buf[2] = 53 /\ buf[3] \in {68, 100}
        THEN <<RBR>> \o Literal(SubSeq(buf, 4, Len(buf)), TRUE)
    ELSE <<buf[1]>> \o Literal(Tail(buf), inKey)

LiteralInput == Literal(input, TRUE)
\* The store of the literal buffer at the place the caller stands in.
LiteralStore == Descend(LiteralInput, BrParseAll(LiteralInput), path)

EndsEncoded(buf) ==
    /\ Len(buf) >= 3
    /\ SubSeq(buf, Len(buf) - 2, Len(buf))
        \in {<<37, 53, 66>>, <<37, 53, 68>>, <<37, 53, 98>>, <<37, 53, 100>>}

(***************************************************************************)
(* C11.  Bracket variant: a buffer and the buffer with its encoded bracket *)
(* tokens of key position written literally give stores that answer alike: *)
(* the same keys(), the same values(k) and value(k) for every k, and the   *)
(* same again in the store of sub_values(k), at every depth, also when the *)
(* encoded token ends the buffer or a remainder.  (Two buffers that differ *)
(* only in how such tokens are written have the same literal buffer.)      *)
(***************************************************************************)
C11_EncodedAsLiteral ==
    (variant = "brackets" /\ pc = "done") =>
        /\ IsSome(LiteralStore)
        /\ BrKeys(cur) = BrKeys(Unwrap(LiteralStore))
        /\ result.op = "keys" => result.out = BrKeys(Unwrap(LiteralStore))
        /\ result.op = "values"
            => result.out = BrValues(LiteralInput, Unwrap(LiteralStore), result.key).out
        /\ result.op = "value"
            => result.out = BrValue(LiteralInput, Unwrap(LiteralStore), result.key).out
        /\ (result.op = "sub_values" /\ result.out = None)
            => sub_values(LiteralInput, Unwrap(LiteralStore), result.key).out = None

\* Two descents into a buffer whose last bytes are an encoded bracket, one of
\* them through an encoded '[' that ends a remainder.
C11_Witness ==
    /\ variant = "brackets" /\ result.op = "sub_values" /\ IsSome(result.out)
    /\ Len(path) = 2 /\ cur # <<>>
    /\ EndsEncoded(input)
    /\ \E g \in Groups(pairs) : \E m \in Members(pairs, g) :
        LET sk == subkey(input, pairs[g].members[m].key).sub
        IN IsSome(sk) /\ IsSome(Unwrap(sk).rem) /\ Unwrap(Unwrap(sk).rem).len = 0


(***************************************************************************)
(* The deserialization bridge of the two stores (mod de): a group handed   *)
(* out by into_iter is asked for a fixed-length sequence or for a scalar.  *)
(* A raw value is the span Value::slice() gives, the empty span for a pair *)
(* without value (unwrap_or_default).                                      *)
(***************************************************************************)
MaxSize == 3

RawSlice(pair) == IF IsSome(pair.v) THEN Unwrap(pair.v) ELSE Span(0, 0)
RawSlices(members) == [i \in 1..Len(members) |-> RawSlice(members[i])]

Ok(items) == [ok |-> TRUE, err |-> "", items |-> items]
Err(kind) == [ok |-> FALSE, err |-> kind, items |-> <<>>]

\* DuplicateValueIter::into_sized_iterator over the iterator of into_iter.
into_sized_iterator(members, size) ==
    IF Len(members) = size THEN Ok(RawSlices(members)) ELSE Err("Custom")

\* Key::is_empty
is_empty(key) ==
    IF IsSome(key.rem) THEN key.k.len = 0 /\ Unwrap(key.rem).len = 0
    ELSE key.k.len = 0

\* lexical::parse::<usize, _>: the decimal number the bytes spell, if they do.
RECURSIVE DecimalOf(_, _)
DecimalOf(bytes, acc) ==
    IF bytes = <<>> THEN acc ELSE DecimalOf(Tail(bytes), 10 * acc + (bytes[1] - 48))

ParseUsize(bytes) ==
    IF bytes # <<>> /\ \A i \in 1..Len(bytes) : bytes[i] \in 48..57
    THEN Some(DecimalOf(bytes, 0)) ELSE None

\* The index closure of to_seq_values for one pair.
SeqIndex(buf, pair) ==
    LET sk == subkey(buf, pair.key).sub
    IN IF IsSome(sk) /\ ~is_empty(Unwrap(sk))
       THEN ParseUsize(Bytes(buf, Unwrap(sk).k))
       ELSE Some(0)

\* values.sort_by_key(|item| item.0): stable.
RECURSIVE SortByKey(_)
SortByKey(items) ==
    IF items = <<>> THEN <<>>
    ELSE LET rest == SortByKey(SubSeq(items, 1, Len(items) - 1))
             last == items[Len(items)]
             Before(x) == x.index <= last.index
             After(x) == x.index > last.index
         IN SelectSeq(rest, Before) \o <<last>> \o SelectSeq(rest, After)

to_seq_values(buf, members) ==
    IF \E i \in 1..Len(members) : SeqIndex(buf, members[i]) = None
    THEN Err("InvalidNumber")
    ELSE Ok(SortByKey([i \in 1..Len(members) |->
                [index |-> Unwrap(SeqIndex(buf, members[i])),
                 slice |-> RawSlice(members[i])]]))

\* Mutant: the length is not compared.
MutDeserializeTupleAnyLength(buf, members, len) ==
    LET values == to_seq_values(buf, members)
    IN IF ~values.ok THEN values
       ELSE Ok([i \in 1..Len(values.items) |-> values.items[i].slice])

\* PairsDeserializer::deserialize_tuple, up to the call of the visitor.
deserialize_tuple(buf, members, len) ==
    LET values == to_seq_values(buf, members)
    IN IF ~values.ok THEN values
       ELSE IF Len(values.items) = len
       THEN Ok([i \in 1..Len(values.items) |-> values.items[i].slice])
       ELSE Err("InvalidLength")

\* forware_to_slice_deserializer: the raw value handed to the scalar visitor.
deserialize_scalar(members) == RawSlice(members[Len(members)])

Asked(op, key, len, out) == [op |-> op, key |-> key, len |-> len, out |-> out]

CallIntoSizedIterator ==
    /\ variant = "duplicate" /\ pc = "done"
    /\ \E g \in Groups(cur), size \in 0..MaxSize :
        result' = Asked("into_sized_iterator", cur[g].key, size,
                        into_sized_iterator(cur[g].members, size))
    /\ UNCHANGED <<input, variant, index, pairs, pc, cur, path>>

CallDeserializeTuple ==
    /\ variant = "brackets" /\ pc = "done"
    /\ \E g \in Groups(cur), len \in 0..MaxSize :
        result' = Asked("deserialize_tuple", cur[g].key, len,
                        deserialize_tuple(input, cur[g].members, len))
    /\ UNCHANGED <<input, variant, index, pairs, pc, cur, path>>

CallDeserializeScalar ==
    /\ variant = "brackets" /\ pc = "done"
    /\ \E g \in Groups(cur) :
        result' = Returned("deserialize_scalar", cur[g].key,
                           deserialize_scalar(cur[g].members))
    /\ UNCHANGED <<input, variant, index, pairs, pc, cur, path>>

NextBridge ==
    \/ DuplicateParse
    \/ BracketsParse
    \/ ParseReturn
    \/ CallSubValues
    \/ CallIntoSizedIterator
    \/ CallDeserializeTuple
    \/ CallDeserializeScalar

\* 3=5  3  5=3  3[5]=3  3[]=5  3[x]=5  3[5][x]=3
BridgeSegments ==
    { <<51, 61, 53>>, <<51>>, <<53, 61, 51>>, <<51, 91, 53, 93, 61, 51>>,
      <<51, 91, 93, 61, 53>>, <<51, 91, 120, 93, 61, 53>>,
      <<51, 91, 53, 93, 91, 120, 93, 61, 51>> }

InitBridge == InitWith(JoinedPairs(BridgeSegments, MaxPairs), {"duplicate", "brackets"})
SpecBridge == InitBridge /\ [][NextBridge]_vars

\* The group the last bridge call was made on.
AskedGroup == cur[MapGet(cur, result.key)].members

\* The pair has a sub-key that is neither empty nor a decimal number.
BadIndex(buf, pair) ==
    LET sk == subkey(buf, pair.key).sub
    IN /\ IsSome(sk)
       /\ ~(Unwrap(sk).k.len = 0 /\ (Unwrap(sk).rem = None \/ Unwrap(Unwrap(sk).rem).len = 0))
       /\ LET name == Bytes(buf, Unwrap(sk).k)
          IN name = <<>> \/ \E i \in 1..Len(name) : name[i] \notin 48..57

(***************************************************************************)
(* C12.  A group asked for a fixed-length sequence of n values gives one   *)
(* only if it holds exactly n pairs.  With more or fewer pairs the call    *)
(* returns an error and no value: in the bracket variant InvalidLength,    *)
(* unless a pair of the group has a sub-key that is neither empty nor a    *)
(* number, which fails the call with InvalidNumber whatever the length.    *)
(***************************************************************************)
C12_FixedLength ==
    /\ result.op = "into_sized_iterator" =>
        /\ result.out.ok <=> Len(AskedGroup) = result.len
        /\ result.out.ok => result.out.items = RawSlices(AskedGroup)
        /\ ~result.out.ok => result.out.items = <<>>
    /\ result.op = "deserialize_tuple" =>
        LET bad == \E i \in 1..Len(AskedGroup) : BadIndex(input, AskedGroup[i])
        IN /\ result.out.ok => (Len(AskedGroup) = result.len /\ Len(result.out.items) = result.len)
           /\ Len(AskedGroup) # result.len =>
                /\ ~result.out.ok /\ result.out.items = <<>>
                /\ result.out.err = IF bad THEN "InvalidNumber" ELSE "InvalidLength"
           /\ bad => (~result.out.ok /\ result.out.err = "InvalidNumber")
           /\ (~bad /\ Len(AskedGroup) = result.len) => result.out.ok

\* C12 as the specification states it: a bracket group of another length than
\* asked for fails with InvalidLength.
C12_Original ==
    /\ result.op = "into_sized_iterator" =>
        (result.out.ok <=> Len(AskedGroup) = result.len)
    /\ result.op = "deserialize_tuple" =>
        /\ result.out.ok => Len(AskedGroup) = result.len
        /\ Len(AskedGroup) # result.len
            => (~result.out.ok /\ result.out.err = "InvalidLength")

\* A bracket group of three pairs, leaf and indexed, was asked for two values.
C12_Witness ==
    /\ variant = "brackets" /\ result.op = "deserialize_tuple"
    /\ Len(AskedGroup) = 3 /\ result.len = 2
    /\ result.out.err = "InvalidLength"
    /\ \E i \in 1..3 : IsSome(AskedGroup[i].key.rem)
    /\ \E i \in 1..3 : AskedGroup[i].key.rem = None


(***************************************************************************)
(* C16.  Bracket variant: a group that mixes leaf pairs and bracketed      *)
(* pairs, asked for a scalar, hands the visitor the raw value of the pair  *)
(* value(key) selects: the last pair of the group without sub-key.         *)
(***************************************************************************)
MixedGroup(members) ==
    /\ \E i \in 1..Len(members) : RefLeaf(members[i])
    /\ \E i \in 1..Len(members) : ~RefLeaf(members[i])

C16_ScalarIsValue ==
    (variant = "brackets" /\ result.op = "deserialize_scalar" /\ MixedGroup(AskedGroup)) =>
        LET leaves == RefLeafMembers(cur, result.key)
        IN result.out = RawSlice(leaves[Len(leaves)])


(***************************************************************************)
(* C13.  Bracket variant: for a pair whose remainder holds no closing      *)
(* bracket token (foo[xyz=bar), subkey() is the whole remainder as name    *)
(* with no further remainder and has_subkey() is false; the pair's value   *)
(* is reported by values(k), and by value(k) when the pair is the last     *)
(* leaf of its group, and also by values(name) of the store sub_values(k)  *)
(* returns, name being the key the remainder decodes to (the remainder     *)
(* itself when it holds no escape).  None of this panics.                  *)
(***************************************************************************)
Unclosed(pair) ==
    IsSome(pair.key.rem) /\ ~RefHasClose(Bytes(input, Unwrap(pair.key.rem)))

InSeq(x, seq) == \E i \in 1..Len(seq) : seq[i] = x

RemLen(key) == IF IsSome(key.rem) THEN Unwrap(key.rem).len ELSE -1

SubkeyShrinks(key) ==
    LET sk == subkey(input, key).sub
    IN IF key.rem = None THEN sk = None
       ELSE IsSome(sk) /\ RemLen(Unwrap(sk)) < RemLen(key)

\* The pair child of a sub-store was made of the pair parent.
ChildOf(child, parent) ==
    /\ IsSome(parent.key.rem)
    /\ child.v = parent.v
    /\ child.key.k.off = Unwrap(parent.key.rem).off
    /\ RemLen(child.key) < RemLen(parent.key)

C14_DescentTerminates ==
    /\ [](variant = "brackets" =>
            /\ Len(path) <= Len(input) + 1
            /\ Len(path) = Len(input) + 1 => cur = <<>>
            /\ \A g \in Groups(cur) : \A m \in Members(cur, g) :
                SubkeyShrinks(cur[g].members[m].key))
    /\ [][(variant = "brackets" /\ path' # path) =>
            LET group == cur[MapGet(cur, path'[Len(path')])].members
            IN /\ TotalPairs(cur') = Len(SelectSeq(group, HasRemainder))
               /\ \A g \in Groups(cur') : \A m \in Members(cur', g) :
                    \E i \in 1..Len(group) : ChildOf(cur'[g].members[m], group[i])]_vars

\* Three descents, the second into a store whose pair still has a remainder.
C14_Witness ==
    /\ variant = "brackets" /\ Len(path) = 3 /\ cur = <<>>
    /\ result.op = "sub_values" /\ IsSome(result.out)


(***************************************************************************)
(* C15.  On a buffer without '[' and without %5B / %5b the two variants    *)
(* agree: their stores have the same keys(), the same values(k) and the    *)
(* same value(k) for every k, and sub_values(k) of the bracket store has   *)
(* no keys for every key k that is present.                                *)
(***************************************************************************)
BracketFree(buf) ==
    \A i \in 1..Len(buf) :
        /\ buf[i] # LBR
        /\ ~(i + 2 <= Len(buf) /\ buf[i] = PCT /\ buf[i + 1] = 53 /\ buf[i + 2] \in {66, 98})

C15_VariantsAgree ==
    (BracketFree(input) /\ pc = "done") =>
        /\ (variant = "brackets" /\ path = <<>>) =>
            LET dup == DupParseAll(input)
            IN /\ BrKeys(cur) = DupKeys(dup)
               /\ result.op = "keys" => result.out = DupKeys(dup)
               /\ result.op = "values" => result.out = DupValues(input, dup, result.key)
               /\ result.op = "value" => result.out = DupValue(input, dup, result.key)
        /\ variant = "brackets" =>
            /\ Len(path) <= 1
            /\ path # <<>> => (cur = <<>> /\ BrKeys(cur) = <<>>)
            /\ (result.op = "sub_values" /\ path = <<>>)
                => (result.out = None /\ ~MapHas(pairs, result.key))
        /\ variant = "duplicate" =>
            LET br == BrParseAll(input)
            IN /\ DupKeys(cur) = BrKeys(br)
               /\ result.op = "keys" => result.out = BrKeys(br)
               /\ result.op = "values" => result.out = BrValues(input, br, result.key).out
               /\ result.op = "value" => result.out = BrValue(input, br, result.key).out
               /\ \A i \in 1..Len(br) : sub_values(input, br, br[i].key).out = Some(<<>>)

\* values(k) was asked of the bracket store of a bracket-free buffer that has a
\* ']' and an escape, and a pair with a value.
C15_Witness ==
    /\ variant = "brackets" /\ BracketFree(input)
    /\ result.op = "values" /\ IsSome(result.out)
    /\ InSeq(RBR, input) /\ InSeq(PCT, input)
    /\ \E i \in 1..Len(Unwrap(result.out)) : IsSome(Unwrap(result.out)[i])


(***************************************************************************)
(* C17.  parse, in both variants, stores one pair for each segment between *)
(* '&' bytes, in input order, and none for the empty rest after a trailing *)
(* '&' nor for the empty buffer: the pairs of all groups number the '&'    *)
(* bytes, plus one if the buffer is not empty and does not end in '&'.  An *)
(* empty segment elsewhere gives a pair with the empty key and no value,   *)
(* and the empty key is among keys().                                      *)
(***************************************************************************)
AmpCount(buf) == Cardinality({i \in 1..Len(buf) : buf[i] = AMP})

\* The offsets at which a segment starts, the empty rest after a trailing '&'
\* left out.
SegmentStarts(buf) ==
    (IF buf = <<>> THEN {} ELSE {0}) \cup {i \in 1..(Len(buf) - 1) : buf[i] = AMP}

EmptySegmentAt(buf, off) == off \in SegmentStarts(buf) /\ buf[off + 1] = AMP

PairsAt(map, off) ==
    UNION {{map[g].members[m] : m \in {n \in Members(map, g) : RawKey(map[g].members[n]).off = off}}
            : g \in Groups(map)}

C17_PairPerSegment ==
    pc = "done" =>
        /\ TotalPairs(pairs)
            = AmpCount(input)
                + (IF input # <<>> /\ input[Len(input)] # AMP THEN 1 ELSE 0)
        /\ \A off \in 0..Len(input) :
            Cardinality(PairsAt(pairs, off)) = IF off \in SegmentStarts(input) THEN 1 ELSE 0
        /\ \A g \in Groups(pairs) : \A m \in Members(pairs, g) : \A n \in Members(pairs, g) :
            m < n => RawKey(pairs[g].members[m]).off < RawKey(pairs[g].members[n]).off
        /\ \A off \in 0..Len(input) :
            EmptySegmentAt(input, off) =>
                /\ \A p \in PairsAt(pairs, off) : RawKey(p).len = 0 /\ p.v = None
                /\ MapHas(pairs, <<>>)
                /\ (result.op = "keys" /\ path = <<>>) => InSeq(<<>>, result.out)

\* keys() was asked of the store of a buffer with an empty segment after a first
\* segment and before a trailing '&'.
C17_Witness ==
    /\ result.op = "keys" /\ path = <<>>
    /\ \E off \in 1..Len(input) : EmptySegmentAt(input, off)
    /\ input[1] # AMP /\ input[Len(input)] = AMP
    /\ Len(pairs) >= 2


====
